---------------------------- MODULE Spec2Model ----------------------------
(***************************************************************************)
(* CV_Creator: the post-render structural cleanup and timestamped save of  *)
(* generate.py, the prompt assembly and JSON coercion of tailor_cv.py and  *)
(* the JSON coercion of update_from_linkedin.py.                            *)
(*                                                                         *)
(* Four specifications share the module, one per part of the repository:   *)
(*   SpecClean   generate.py, cleanup loop (lines 19-50)                    *)
(*   SpecStamp   generate.py, timestamped save (lines 52-64)                *)
(*   SpecPrompt  tailor_cv.py, build_prompt                                 *)
(*   SpecPipe    the two command line pipelines, main() of each script      *)
(***************************************************************************)
EXTENDS Integers, Sequences, FiniteSets, TLC

VARIABLES
    \* ---- generate.py, cleanup
    doc,        \* the rendered document tree (docx_doc), mutated in place
    doc0,       \* the tree as rendered, before any cleanup
    before,     \* the tree as it was before the latest cleanup pass
    passes,     \* how many times the cleanup loop has run to completion
    crashed,    \* the loop raised (delete of a paragraph with no parent)
    inspected,  \* ids the latest pass tested, in order
    \* ---- generate.py, timestamped save
    clock,      \* the instant, in seconds since 1970-01-01T00:00:00Z
    tz_ok,      \* zoneinfo and the Europe/London zone data can be loaded
    saved,      \* the latest runs' [t, out_file], oldest first
    \* ---- tailor_cv.py, build_prompt
    template,   \* the prompt template's text
    job_spec,   \* the fetched job description
    cv_md,      \* the Markdown CV
    prompt,     \* build_prompt's result, <<>> until it has run
    \* ---- the two pipelines, one run at a time
    script,     \* "tailor_cv" or "update_from_linkedin"
    source,     \* update_from_linkedin's input: "pdf", "url" or "text"
    pc,         \* the step main() is at, "done" or "failed"
    steps,      \* the steps of this run that have succeeded, in order
    content,    \* the model's message content (<<>>: None or empty)
    output_text,\* the text handed to the JSON coercion
    parsed,     \* the coerced value
    out_file,   \* what was written to args.out
    failure,    \* the failure class that ended the run, "none" otherwise
    uncaught,   \* the run ended by an exception nothing caught
    exit_code,  \* the process's exit status once it has ended
    stderr,     \* the diagnostic: [msg, text]
    model_calls,\* chat.completions.create calls of this run
    fetch_calls,\* requests.get calls of this run
    prev        \* how the previous run ended: [script, failure, uncaught, exit_code]

cleanVars == <<doc, doc0, before, passes, crashed, inspected>>
stampVars == <<clock, tz_ok, saved>>
promptVars == <<template, job_spec, cv_md, prompt>>

pipeVars == <<script, source, pc, steps, content, output_text, parsed, out_file,
              failure, uncaught, exit_code, stderr, model_calls, fetch_calls, prev>>

vars == <<cleanVars, stampVars, promptVars, pipeVars>>

--------------------------------------------------------------------------
(* Bounds *)

\* A document has at most MaxNodes table cells and paragraphs together.
MaxNodes == 4

\* The clock is followed for MaxTicks seconds from where it starts.
MaxTicks == 3

\* A prompt template is at most MaxTemplateLen pieces of text long, a job
\* description or a CV at most MaxInputLen.
MaxTemplateLen == 4
MaxInputLen == 2

--------------------------------------------------------------------------
(* The document tree.                                                      *)
(*                                                                         *)
(* A container (the body, or a table cell) is named by its path from the   *)
(* body: a sequence of <<table, row, cell>> indices.  The tree is a        *)
(* function from the paths of its containers to their paragraphs, in       *)
(* document order.  A paragraph is [id, runs, sectPr]: id is the identity  *)
(* of its XML element, runs its content in order (text characters and      *)
(* w:br elements), sectPr whether pPr holds a sectPr.                      *)

Root == <<>>

TextItem(c) == [kind |-> "t", val |-> c]
BrItem(type) == [kind |-> "br", val |-> type]

\* w:type of a w:br: absent (None), textWrapping, page, column
NoType == "None"

ParaKinds ==
    { [runs |-> <<>>, sectPr |-> FALSE],
      [runs |-> <<TextItem(" "), BrItem(NoType)>>, sectPr |-> FALSE],
      [runs |-> <<BrItem("page")>>, sectPr |-> FALSE],
      [runs |-> <<TextItem(" "), BrItem("column")>>, sectPr |-> FALSE],
      [runs |-> <<>>, sectPr |-> TRUE],
      [runs |-> <<TextItem("a"), BrItem("page")>>, sectPr |-> FALSE],
      [runs |-> <<TextItem(" "), TextItem("a"), TextItem(" ")>>, sectPr |-> FALSE] }

Indices == 1 .. MaxNodes

Child(path, t, r, c) == Append(path, <<t, r, c>>)

\* obj.tables, t.rows, row.cells: how many there are
NumTables(d, path) == Cardinality({t \in Indices : Child(path, t, 1, 1) \in DOMAIN d})
NumRows(d, path, t) == Cardinality({r \in Indices : Child(path, t, r, 1) \in DOMAIN d})
NumCells(d, path, t, r) == Cardinality({c \in Indices : Child(path, t, r, c) \in DOMAIN d})

NumParas(d) ==
    LET RECURSIVE Sum(_)
        Sum(S) == IF S = {} THEN 0
                  ELSE LET p == CHOOSE x \in S : TRUE IN Len(d[p]) + Sum(S \ {p})
    IN Sum(DOMAIN d)

NumNodes(d) == (Cardinality(DOMAIN d) - 1) + NumParas(d)

\* The one-node extensions of a tree: a paragraph appended to a container,
\* or a cell appended to a row, a row to a table, a table to a container.
AddParagraph(d, path, k) ==
    [d EXCEPT ![path] = Append(@, [id |-> <<path, Len(@) + 1>>,
                                   runs |-> k.runs, sectPr |-> k.sectPr])]

NewCellPaths(d) ==
    UNION { {Child(path, NumTables(d, path) + 1, 1, 1)}
            \cup { Child(path, t, NumRows(d, path, t) + 1, 1)
                   : t \in 1 .. NumTables(d, path) }
            \cup UNION { { Child(path, t, r, NumCells(d, path, t, r) + 1)
                           : r \in 1 .. NumRows(d, path, t) }
                         : t \in 1 .. NumTables(d, path) }
            : path \in DOMAIN d }

Extensions(d) ==
    { AddParagraph(d, path, k) : path \in DOMAIN d, k \in ParaKinds }
    \cup { d @@ (np :> <<>>) : np \in NewCellPaths(d) }

--------------------------------------------------------------------------
(* generate.py, lines 22-50 *)

\* p._p.pPr is not None and pPr.sectPr is not None
HasSectionBreak(p) == p.sectPr

HasPageBreakOnly(p) ==
    \E i \in 1 .. Len(p.runs) : p.runs[i].kind = "br" /\ p.runs[i].val = "page"

\* any w:br below the paragraph whose w:type is 'page' or 'column'
HasPageOrColumnBreak(p) ==
    \E i \in 1 .. Len(p.runs) :
        /\ p.runs[i].kind = "br"
        /\ p.runs[i].val \in {"page", "column"}

\* p.text: the runs' text; a line break reads as a newline, a page or a
\* column break as nothing
RECURSIVE TextOf(_)
TextOf(runs) ==
    IF runs = <<>> THEN <<>>
    ELSE LET h == Head(runs)
             s == IF h.kind = "t" THEN <<h.val>>
                  ELSE IF h.val \in {"page", "column"} THEN <<>> ELSE <<"\n">>
         IN s \o TextOf(Tail(runs))

Whitespace == {" ", "\n", "\t"}

\* str.strip()
RECURSIVE LStrip(_)
LStrip(s) == IF s # <<>> /\ Head(s) \in Whitespace THEN LStrip(Tail(s)) ELSE s

RECURSIVE RStrip(_)
RStrip(s) ==
    IF s # <<>> /\ s[Len(s)] \in Whitespace THEN RStrip(SubSeq(s, 1, Len(s) - 1)) ELSE s

Strip(s) == RStrip(LStrip(s))

IsEffectivelyEmptyNoTextTest(p) ==
    ~HasSectionBreak(p) /\ ~HasPageOrColumnBreak(p)

IsEffectivelyEmpty(p) ==
    /\ Strip(TextOf(p.runs)) = <<>>
    /\ ~HasSectionBreak(p)
    /\ ~HasPageOrColumnBreak(p)

\* p._element.getparent(): the container holding the element, if any
Parents(d, p) == { path \in DOMAIN d : \E i \in 1 .. Len(d[path]) : d[path][i].id = p.id }

\* p._element.getparent().remove(p._element)
DeleteParagraph(d, p) ==
    [path \in DOMAIN d |-> SelectSeq(d[path], LAMBDA x : x.id # p.id)]

IterParagraphsBodyOnly(d, path) == d[path]

\* iter_paragraphs(obj): the container's paragraphs, then for each table,
\* row and cell in order, the cell's
RECURSIVE IterParagraphs(_, _)
IterParagraphs(d, path) ==
    LET RECURSIVE Cells(_, _, _)
        Cells(t, r, c) ==
            IF c > NumCells(d, path, t, r) THEN <<>>
            ELSE IterParagraphs(d, Child(path, t, r, c)) \o Cells(t, r, c + 1)
        RECURSIVE Rows(_, _)
        Rows(t, r) ==
            IF r > NumRows(d, path, t) THEN <<>>
            ELSE Cells(t, r, 1) \o Rows(t, r + 1)
        RECURSIVE Tables(_)
        Tables(t) ==
            IF t > NumTables(d, path) THEN <<>>
            ELSE Rows(t, 1) \o Tables(t + 1)
    IN d[path] \o Tables(1)

\* The loop run over the live list instead of a copy: a deletion shifts the
\* list under the iterator, which then steps over the next paragraph.
RECURSIVE CleanLoopLive(_, _, _)
CleanLoopLive(st, snap, i) ==
    IF i > Len(snap) \/ st.crashed THEN st
    ELSE LET p == snap[i]
             seen == [st EXCEPT !.inspected = Append(@, p.id)]
         IN IF IsEffectivelyEmpty(p)
            THEN CleanLoopLive([seen EXCEPT !.doc = DeleteParagraph(@, p)], snap, i + 2)
            ELSE CleanLoopLive(seen, snap, i + 1)

\* for p in list(iter_paragraphs(docx_doc)): if is_effectively_empty(p):
\* delete_paragraph(p).  st is [doc, crashed, inspected]; the loop stops
\* where delete_paragraph raises.
RECURSIVE CleanLoop(_, _, _)
CleanLoop(st, snap, i) ==
    IF i > Len(snap) \/ st.crashed THEN st
    ELSE LET p == snap[i]
             seen == [st EXCEPT !.inspected = Append(@, p.id)]
         IN IF IsEffectivelyEmpty(p)
            THEN IF Parents(st.doc, p) = {}
                 THEN [seen EXCEPT !.crashed = TRUE]
                 ELSE CleanLoop([seen EXCEPT !.doc = DeleteParagraph(@, p)], snap, i + 1)
            ELSE CleanLoop(seen, snap, i + 1)

Clean(d) ==
    CleanLoop([doc |-> d, crashed |-> FALSE, inspected |-> <<>>],
              IterParagraphs(d, Root), 1)

--------------------------------------------------------------------------
(* SpecClean *)

IdleClean ==
    /\ doc = (Root :> <<>>)
    /\ doc0 = doc
    /\ before = doc
    /\ passes = 0
    /\ crashed = FALSE
    /\ inspected = <<>>

IdleStamp ==
    /\ clock = 0
    /\ tz_ok = TRUE
    /\ saved = <<>>

IdlePrompt ==
    /\ template = <<>>
    /\ job_spec = <<>>
    /\ cv_md = <<>>
    /\ prompt = <<>>

NoValue == [type |-> "none", chars |-> <<>>, members |-> <<>>]
NoDiagnostic == [msg |-> "", text |-> <<>>]
NoRun == [script |-> "none", failure |-> "none", uncaught |-> FALSE, exit_code |-> 0]

IdlePipe ==
    /\ script = "none"
    /\ source = "none"
    /\ pc = "idle"
    /\ steps = <<>>
    /\ content = <<>>
    /\ output_text = <<>>
    /\ parsed = NoValue
    /\ out_file = NoValue
    /\ failure = "none"
    /\ uncaught = FALSE
    /\ exit_code = 0
    /\ stderr = NoDiagnostic
    /\ model_calls = 0
    /\ fetch_calls = 0
    /\ prev = NoRun

InitClean == IdleClean /\ IdleStamp /\ IdlePrompt /\ IdlePipe

\* doc.render(ctx), line 17: the rendered tree is any tree of at most
\* MaxNodes nodes, grown one node at a time
Render ==
    /\ passes = 0
    /\ NumNodes(doc) < MaxNodes
    /\ doc' \in Extensions(doc)
    /\ doc0' = doc'
    /\ before' = doc'
    /\ UNCHANGED <<passes, crashed, inspected, stampVars, promptVars, pipeVars>>

\* generate.py lines 47-50 on the tree as rendered
Cleanup ==
    /\ passes = 0
    /\ LET st == Clean(doc)
       IN /\ doc' = st.doc
          /\ crashed' = st.crashed
          /\ inspected' = st.inspected
    /\ before' = doc
    /\ passes' = 1
    /\ UNCHANGED <<doc0, stampVars, promptVars, pipeVars>>

\* the same loop applied to its own result
CleanupAgain ==
    /\ passes = 1
    /\ ~crashed
    /\ LET st == Clean(doc)
       IN /\ doc' = st.doc
          /\ crashed' = st.crashed
          /\ inspected' = st.inspected
    /\ before' = doc
    /\ passes' = 2
    /\ UNCHANGED <<doc0, stampVars, promptVars, pipeVars>>

NextClean == Render \/ Cleanup \/ CleanupAgain

SpecClean == InitClean /\ [][NextClean]_vars

--------------------------------------------------------------------------
(* generate.py, lines 52-64: the timestamped save *)

SecondsPerDay == 86400
SecondsPerHour == 3600

\* The proleptic Gregorian calendar, as datetime keeps it: the day number
\* (days since 1970-01-01) of a date, and the date of a day number.
DaysFromCivil(y, m, d) ==
    LET yy == IF m <= 2 THEN y - 1 ELSE y
        era == yy \div 400
        yoe == yy - era * 400
        mp == IF m > 2 THEN m - 3 ELSE m + 9
        doy == (153 * mp + 2) \div 5 + d - 1
        doe == yoe * 365 + yoe \div 4 - yoe \div 100 + doy
    IN era * 146097 + doe - 719468

CivilFromDays(z0) ==
    LET z == z0 + 719468
        era == z \div 146097
        doe == z - era * 146097
        yoe == (doe - doe \div 1460 + doe \div 36524 - doe \div 146096) \div 365
        doy == doe - (365 * yoe + yoe \div 4 - yoe \div 100)
        mp == (5 * doy + 2) \div 153
        d == doy - (153 * mp + 2) \div 5 + 1
        m == IF mp < 10 THEN mp + 3 ELSE mp - 9
        y == yoe + era * 400 + (IF m <= 2 THEN 1 ELSE 0)
    IN [year |-> y, month |-> m, day |-> d]

\* the civil fields of a count of seconds since 1970-01-01T00:00:00
CivilTime(s) ==
    LET date == CivilFromDays(s \div SecondsPerDay)
        sod == s % SecondsPerDay
    IN [year |-> date.year, month |-> date.month, day |-> date.day,
        hour |-> sod \div SecondsPerHour,
        minute |-> (sod % SecondsPerHour) \div 60,
        second |-> sod % 60]

\* Europe/London: British Summer Time, one hour ahead of UTC, runs from
\* 01:00 UTC on the last Sunday of March to 01:00 UTC on the last Sunday of
\* October.
LastSunday(y, m) ==
    LET last == DaysFromCivil(y, m, 31)
        weekday == (last + 4) % 7      \* 0 is Sunday; 1970-01-01 was a Thursday
    IN last - weekday

LondonOffset(t) ==
    LET y == CivilFromDays(t \div SecondsPerDay).year
        start == LastSunday(y, 3) * SecondsPerDay + SecondsPerHour
        end == LastSunday(y, 10) * SecondsPerDay + SecondsPerHour
    IN IF start <= t /\ t < end THEN SecondsPerHour ELSE 0

\* now = datetime.now(ZoneInfo("Europe/London")), or on any exception
\* datetime.utcnow()
Now(t, zone) ==
    IF zone THEN CivilTime(t + LondonOffset(t)) ELSE CivilTime(t)

\* characters are their code points
Digit(n) == 48 + n
Digits2(n) == <<Digit(n \div 10), Digit(n % 10)>>
Digits4(n) == Digits2(n \div 100) \o Digits2(n % 100)
Hyphen == <<45>>

\* now.strftime("%Y%m%d-%H%M%S")
Strftime(now) ==
    Digits4(now.year) \o Digits2(now.month) \o Digits2(now.day) \o Hyphen
    \o Digits2(now.hour) \o Digits2(now.minute) \o Digits2(now.second)

\* "CV_Customized_" and ".docx"
Prefix == <<67, 86, 95, 67, 117, 115, 116, 111, 109, 105, 122, 101, 100, 95>>
Suffix == <<46, 100, 111, 99, 120>>

\* out_file = f"CV_Customized_{stamp}.docx"
OutFile(now) == Prefix \o Strftime(now) \o Suffix

\* s < t for two str
RECURSIVE LexLess(_, _)
LexLess(s, t) ==
    IF t = <<>> THEN FALSE
    ELSE IF s = <<>> THEN TRUE
    ELSE IF Head(s) # Head(t) THEN Head(s) < Head(t)
    ELSE LexLess(Tail(s), Tail(t))

At(y, m, d, hh, mm, ss) ==
    DaysFromCivil(y, m, d) * SecondsPerDay + hh * SecondsPerHour + mm * 60 + ss

\* Where the clock starts: before the end and before the start of summer
\* time, before a new year, and in the middle of a summer and a winter day.
StartInstants ==
    { At(2025, 10, 26, 0, 59, 58), At(2025, 3, 30, 0, 59, 58),
      At(2025, 12, 31, 23, 59, 58), At(2025, 8, 11, 18, 28, 44),
      At(2024, 2, 29, 12, 59, 59) }

InitStamp ==
    /\ IdleClean
    /\ IdlePrompt
    /\ IdlePipe
    /\ clock \in StartInstants
    /\ tz_ok \in BOOLEAN
    /\ saved = <<>>

\* a second passes
Tick ==
    /\ \E s \in StartInstants : s <= clock /\ clock < s + MaxTicks
    /\ clock' = clock + 1
    /\ UNCHANGED <<tz_ok, saved, cleanVars, promptVars, pipeVars>>

\* one run of lines 52-63
Save ==
    /\ LET run == [t |-> clock, out_file |-> OutFile(Now(clock, tz_ok))]
       IN saved' = IF Len(saved) < 2 THEN Append(saved, run) ELSE <<saved[2], run>>
    /\ UNCHANGED <<clock, tz_ok, cleanVars, promptVars, pipeVars>>

NextStamp == Tick \/ Save

SpecStamp == InitStamp /\ [][NextStamp]_vars

--------------------------------------------------------------------------
(* tailor_cv.py, lines 43-48: build_prompt.                                *)
(*                                                                         *)
(* A text is a sequence of pieces.  The literals build_prompt looks for    *)
(* or writes are one piece each; any other piece is running text.          *)

MarkerA == "===== INPUT A: JOB_SPEC ====="
MarkerB == "===== INPUT B: CV_MD ====="
EndA == "===== END INPUT A ====="
EndB == "===== END INPUT B ====="
PlaceholderA == "[PASTE FULL JOB SPEC OR RECRUITER EMAIL HERE]"
PlaceholderB == "[PASTE YOUR MARKDOWN CV HERE]"
NL == "\n"

\* needle in text
Contains(text, needle) == \E i \in 1 .. Len(text) : text[i] = needle

\* text.replace(old, new): every occurrence of old becomes new
RECURSIVE Replace(_, _, _)
Replace(text, old, new) ==
    IF text = <<>> THEN <<>>
    ELSE (IF Head(text) = old THEN new ELSE <<Head(text)>>)
         \o Replace(Tail(text), old, new)

BuildPrompt(tpl, job, cv) ==
    IF Contains(tpl, MarkerA) /\ Contains(tpl, MarkerB)
    THEN Replace(Replace(tpl, PlaceholderA, job), PlaceholderB, cv)
    ELSE tpl \o <<NL, NL, MarkerA, NL>> \o job \o <<NL, EndA, NL, NL, MarkerB, NL>>
         \o cv \o <<NL, EndB, NL>>

SeqsUpTo(S, n) == UNION { [1 .. k -> S] : k \in 0 .. n }

Templates == SeqsUpTo({"Dear model,", MarkerA, MarkerB, PlaceholderA, PlaceholderB},
                      MaxTemplateLen)
\* a job description and a CV open with text of their own and may quote
\* the other input's placeholder
JobSpecs == { <<"Senior engineer wanted">> \o rest
              : rest \in SeqsUpTo({"Apply now", PlaceholderB}, MaxInputLen - 1) }
CvTexts == { <<"# My CV">> \o rest
             : rest \in SeqsUpTo({"## Skills", PlaceholderA}, MaxInputLen - 1) }

InitPrompt ==
    /\ IdleClean
    /\ IdleStamp
    /\ IdlePipe
    /\ template \in Templates
    /\ job_spec \in JobSpecs
    /\ cv_md \in CvTexts
    /\ prompt = <<>>

\* prompt = build_prompt(template, job_spec, cv_md)
Assemble ==
    /\ prompt = <<>>
    /\ prompt' = BuildPrompt(template, job_spec, cv_md)
    /\ UNCHANGED <<template, job_spec, cv_md, cleanVars, stampVars, pipeVars>>

NextPrompt == Assemble

SpecPrompt == InitPrompt /\ [][NextPrompt]_vars

--------------------------------------------------------------------------
(* JSON coercion: tailor_cv.py lines 97-107, update_from_linkedin.py lines *)
(* 76-82.  A text is the sequence of its characters.                       *)

StringValue(cs) == [type |-> "string", chars |-> cs, members |-> <<>>]
ObjectValue(ms) == [type |-> "object", chars |-> <<>>, members |-> ms]
NullValue == [type |-> "null", chars |-> <<>>, members |-> <<>>]

\* json.loads, for documents made of objects, strings and null: JSON
\* whitespace between tokens, no control character inside a string,
\* nothing but whitespace after the value.
JsonWs == {" ", "\n", "\t", "\r"}

RECURSIVE SkipWs(_, _)
SkipWs(s, i) == IF i <= Len(s) /\ s[i] \in JsonWs THEN SkipWs(s, i + 1) ELSE i

ParseFail == [ok |-> FALSE, val |-> NoValue, next |-> 0]

\* the index of the quote closing a string whose content starts at i; 0 if
\* it is not closed or holds a control character (the texts modelled hold
\* no escape sequence)
RECURSIVE ScanString(_, _)
ScanString(s, i) ==
    IF i > Len(s) THEN 0
    ELSE IF s[i] = "\"" THEN i
    ELSE IF s[i] \in {"\n", "\t", "\r"} THEN 0
    ELSE ScanString(s, i + 1)

ParseString(s, i) ==
    LET j == ScanString(s, i + 1)
    IN IF j = 0 THEN ParseFail
       ELSE [ok |-> TRUE, val |-> StringValue(SubSeq(s, i + 1, j - 1)), next |-> j + 1]

RECURSIVE ParseValue(_, _)
RECURSIVE ParseMembers(_, _, _)

ParseValue(s, i0) ==
    LET i == SkipWs(s, i0)
    IN IF i > Len(s) THEN ParseFail
       ELSE IF s[i] = "\"" THEN ParseString(s, i)
       ELSE IF s[i] = "{"
            THEN LET j == SkipWs(s, i + 1)
                 IN IF j <= Len(s) /\ s[j] = "}"
                    THEN [ok |-> TRUE, val |-> ObjectValue(<<>>), next |-> j + 1]
                    ELSE ParseMembers(s, j, <<>>)
       ELSE IF i + 3 <= Len(s) /\ SubSeq(s, i, i + 3) = <<"n", "u", "l", "l">>
            THEN [ok |-> TRUE, val |-> NullValue, next |-> i + 4]
       ELSE ParseFail

ParseMembers(s, i, acc) ==
    IF i > Len(s) \/ s[i] # "\"" THEN ParseFail
    ELSE LET k == ParseString(s, i)
         IN IF ~k.ok THEN ParseFail
            ELSE LET c == SkipWs(s, k.next)
                 IN IF c > Len(s) \/ s[c] # ":" THEN ParseFail
                    ELSE LET v == ParseValue(s, c + 1)
                         IN IF ~v.ok THEN ParseFail
                            ELSE LET e == SkipWs(s, v.next)
                                     acc2 == Append(acc, <<k.val.chars, v.val>>)
                                 IN IF e > Len(s) THEN ParseFail
                                    ELSE IF s[e] = "}"
                                         THEN [ok |-> TRUE, val |-> ObjectValue(acc2),
                                               next |-> e + 1]
                                    ELSE IF s[e] = ","
                                         THEN ParseMembers(s, SkipWs(s, e + 1), acc2)
                                    ELSE ParseFail

JsonLoads(s) ==
    LET r == ParseValue(s, 1)
    IN IF r.ok /\ SkipWs(s, r.next) > Len(s)
       THEN [ok |-> TRUE, val |-> r.val]
       ELSE [ok |-> FALSE, val |-> NoValue]

\* the backtick character
Backtick == "BACKTICK"

\* str.strip(backtick)
RECURSIVE StripBackticks(_)
StripBackticks(s) ==
    IF s # <<>> /\ Head(s) = Backtick THEN StripBackticks(Tail(s))
    ELSE IF s # <<>> /\ s[Len(s)] = Backtick THEN StripBackticks(SubSeq(s, 1, Len(s) - 1))
    ELSE s

\* cleaned = text.strip().strip(backtick)
Cleaned(text) == StripBackticks(Strip(text))

\* try json.loads(text); except JSONDecodeError: json.loads(cleaned)
Coerce(text) ==
    LET first == JsonLoads(text)
    IN IF first.ok THEN first ELSE JsonLoads(Cleaned(text))

--------------------------------------------------------------------------
(* Exit statuses *)

\* tailor_cv.py: sys.exit(1) .. sys.exit(5)
TailorExitRead == 1
TailorExitFetch == 2
TailorExitCredential == 3
TailorExitEmpty == 4
TailorExitUnparseable == 5

\* update_from_linkedin.py
LinkedinExitRead == 1
LinkedinExitFetch == 2
LinkedinExitPdfLibrary == 3
LinkedinExitPdf == 4
LinkedinExitCredential == 5

\* the interpreter's status for an exception nothing caught
UncaughtStatus == 1

ExitStatusEmptyAsUnparseable(scr, cls) ==
    IF scr = "tailor_cv"
    THEN CASE cls = "read" -> TailorExitRead
           [] cls = "fetch" -> TailorExitFetch
           [] cls = "credential" -> TailorExitCredential
           [] cls = "empty" -> TailorExitUnparseable
           [] cls = "unparseable" -> TailorExitUnparseable
           [] OTHER -> UncaughtStatus
    ELSE CASE cls = "read" -> LinkedinExitRead
           [] cls = "fetch" -> LinkedinExitFetch
           [] cls = "pdf_library" -> LinkedinExitPdfLibrary
           [] cls = "pdf" -> LinkedinExitPdf
           [] cls = "credential" -> LinkedinExitCredential
           [] OTHER -> UncaughtStatus

\* the status each script ends with, per failure class; a class the script
\* has no sys.exit for ends by the uncaught exception
ExitStatus(scr, cls) ==
    IF scr = "tailor_cv"
    THEN CASE cls = "read" -> TailorExitRead
           [] cls = "fetch" -> TailorExitFetch
           [] cls = "credential" -> TailorExitCredential
           [] cls = "empty" -> TailorExitEmpty
           [] cls = "unparseable" -> TailorExitUnparseable
           [] OTHER -> UncaughtStatus
    ELSE CASE cls = "read" -> LinkedinExitRead
           [] cls = "fetch" -> LinkedinExitFetch
           [] cls = "pdf_library" -> LinkedinExitPdfLibrary
           [] cls = "pdf" -> LinkedinExitPdf
           [] cls = "credential" -> LinkedinExitCredential
           [] OTHER -> UncaughtStatus

--------------------------------------------------------------------------
(* Model outputs *)

ObjSummaryX == <<"{", "\"", "s", "u", "m", "m", "a", "r", "y", "\"", ":", "\"", "x", "\"", "}">>
ObjEmpty == <<"{", "}">>
NotJson == <<"{", "n", "o", "t", " ", "j", "s", "o", "n">>
Truncated == <<"{", "\"", "s", "u", "m", "m", "a", "r", "y", "\"", ":", "\"", "x", "\"">>
JsonString == <<"\"", "x", "\"">>

Fence == <<Backtick, Backtick, Backtick>>
LanguageTag == <<"j", "s", "o", "n">>

Fenced(body) == Fence \o <<"\n">> \o body \o <<"\n">> \o Fence
FencedWithTag(body) == Fence \o LanguageTag \o <<"\n">> \o body \o <<"\n">> \o Fence
Ticked(body) == <<Backtick>> \o body \o <<Backtick>>
Padded(body) == <<"\n">> \o body \o <<" ">>

Bodies == {ObjSummaryX, ObjEmpty, NotJson, Truncated, JsonString}

ModelOutputs ==
    {<<>>, <<"\n">>}
    \cup Bodies
    \cup { Fenced(b) : b \in Bodies }
    \cup { FencedWithTag(b) : b \in Bodies }
    \cup { Ticked(b) : b \in Bodies }
    \cup { Padded(b) : b \in Bodies }

--------------------------------------------------------------------------
(* SpecPipe: main() of tailor_cv.py and of update_from_linkedin.py, one    *)
(* run after another.                                                      *)

Diagnostic(msg, text) == [msg |-> msg, text |-> text]
Traceback == Diagnostic("Traceback (most recent call last)", <<>>)

\* the step at pc succeeded
Advance(next) ==
    /\ pc' = next
    /\ steps' = Append(steps, pc)
    /\ UNCHANGED <<failure, uncaught, exit_code, stderr>>

\* the run ends: sys.exit(n) after a message on stderr, or an exception
\* nothing catches
End(cls, unc, diag) ==
    /\ pc' = "failed"
    /\ failure' = cls
    /\ uncaught' = unc
    /\ exit_code' = ExitStatus(script, cls)
    /\ stderr' = diag
    /\ UNCHANGED steps

InitPipe == IdleClean /\ IdleStamp /\ IdlePrompt /\ IdlePipe

\* the operator starts one of the scripts
Start ==
    /\ pc = "idle"
    /\ \/ script' = "tailor_cv" /\ source' = "url" /\ pc' = "read_prompt"
       \/ script' = "update_from_linkedin" /\ source' \in {"pdf", "url", "text"}
          /\ pc' = "env"
    /\ UNCHANGED <<steps, content, output_text, parsed, out_file, failure, uncaught,
                   exit_code, stderr, model_calls, fetch_calls, prev>>
    /\ UNCHANGED <<cleanVars, stampVars, promptVars>>

\* tailor_cv.py lines 13-18 and 86-87: read_text of the template, then of
\* the CV
TailorReadText ==
    /\ script = "tailor_cv"
    /\ pc \in {"read_prompt", "read_cv"}
    /\ \/ Advance(IF pc = "read_prompt" THEN "read_cv" ELSE "fetch")
       \/ End("read", FALSE, Diagnostic("Error reading", <<>>))
    /\ UNCHANGED <<script, source, content, output_text, parsed, out_file,
                   model_calls, fetch_calls, prev>>
    /\ UNCHANGED <<cleanVars, stampVars, promptVars>>

\* A fetch that is tried again after it fails.
TailorFetchJobSpecRetrying ==
    /\ script = "tailor_cv"
    /\ pc = "fetch"
    /\ fetch_calls' = fetch_calls + 1
    /\ \/ Advance("key")
       \/ fetch_calls < 1 /\ UNCHANGED <<pc, steps, failure, uncaught, exit_code, stderr>>
       \/ End("fetch", FALSE, Diagnostic("Error fetching job spec from URL", <<>>))
    /\ UNCHANGED <<script, source, content, output_text, parsed, out_file,
                   model_calls, prev>>
    /\ UNCHANGED <<cleanVars, stampVars, promptVars>>

\* tailor_cv.py lines 21-28 and 88: fetch_job_spec
TailorFetchJobSpec ==
    /\ script = "tailor_cv"
    /\ pc = "fetch"
    /\ fetch_calls' = fetch_calls + 1
    /\ \/ Advance("key")
       \/ End("fetch", FALSE, Diagnostic("Error fetching job spec from URL", <<>>))
    /\ UNCHANGED <<script, source, content, output_text, parsed, out_file,
                   model_calls, prev>>
    /\ UNCHANGED <<cleanVars, stampVars, promptVars>>

\* tailor_cv.py lines 31-40 and 91-92: load_api_key; reading the key file
\* may raise
TailorLoadApiKey ==
    /\ script = "tailor_cv"
    /\ pc = "key"
    /\ \/ Advance("call")
       \/ End("credential", FALSE, Diagnostic("OpenAI API key not provided", <<>>))
       \/ End("key_file_error", TRUE, Traceback)
    /\ UNCHANGED <<script, source, content, output_text, parsed, out_file,
                   model_calls, fetch_calls, prev>>
    /\ UNCHANGED <<cleanVars, stampVars, promptVars>>

\* tailor_cv.py lines 94-95 and 51-67: build_prompt, then call_openai; the
\* client may raise, the content may be None or empty
TailorCallOpenai ==
    /\ script = "tailor_cv"
    /\ pc = "call"
    /\ model_calls' = model_calls + 1
    /\ \/ End("api_error", TRUE, Traceback) /\ UNCHANGED <<content, output_text>>
       \/ \E c \in ModelOutputs :
             /\ content' = c
             /\ IF c = <<>>
                THEN End("empty", FALSE, Diagnostic("Empty response from OpenAI", <<>>))
                     /\ UNCHANGED output_text
                ELSE output_text' = Strip(c) /\ Advance("coerce")
    /\ UNCHANGED <<script, source, parsed, out_file, fetch_calls, prev>>
    /\ UNCHANGED <<cleanVars, stampVars, promptVars>>

\* tailor_cv.py lines 97-107
TailorCoerce ==
    /\ script = "tailor_cv"
    /\ pc = "coerce"
    /\ LET r == Coerce(output_text)
       IN IF r.ok
          THEN parsed' = r.val /\ Advance("write")
          ELSE End("unparseable", FALSE,
                   Diagnostic("Model did not return valid JSON. Raw output:", output_text))
               /\ UNCHANGED parsed
    /\ UNCHANGED <<script, source, content, output_text, out_file,
                   model_calls, fetch_calls, prev>>
    /\ UNCHANGED <<cleanVars, stampVars, promptVars>>

\* tailor_cv.py lines 109-110
TailorWrite ==
    /\ script = "tailor_cv"
    /\ pc = "write"
    /\ out_file' = parsed
    /\ pc' = "done"
    /\ steps' = Append(steps, pc)
    /\ UNCHANGED <<script, source, content, output_text, parsed, failure, uncaught,
                   exit_code, stderr, model_calls, fetch_calls, prev>>
    /\ UNCHANGED <<cleanVars, stampVars, promptVars>>

\* update_from_linkedin.py lines 95-101
LinkedinCheckKey ==
    /\ script = "update_from_linkedin"
    /\ pc = "env"
    /\ \/ Advance("source")
       \/ End("credential", FALSE, Diagnostic("OPENAI_API_KEY not set", <<>>))
    /\ UNCHANGED <<script, source, content, output_text, parsed, out_file,
                   model_calls, fetch_calls, prev>>
    /\ UNCHANGED <<cleanVars, stampVars, promptVars>>

\* update_from_linkedin.py lines 33-52 and 103-104: read_pdf_text
LinkedinReadPdfText ==
    /\ script = "update_from_linkedin"
    /\ pc = "source"
    /\ source = "pdf"
    /\ \/ Advance("call")
       \/ End("pdf_library", FALSE, Diagnostic("Please install 'pypdf'", <<>>))
       \/ End("pdf", FALSE, Diagnostic("Error reading PDF", <<>>))
    /\ UNCHANGED <<script, source, content, output_text, parsed, out_file,
                   model_calls, fetch_calls, prev>>
    /\ UNCHANGED <<cleanVars, stampVars, promptVars>>

\* update_from_linkedin.py lines 23-30 and 105-106: fetch_url
LinkedinFetchUrl ==
    /\ script = "update_from_linkedin"
    /\ pc = "source"
    /\ source = "url"
    /\ fetch_calls' = fetch_calls + 1
    /\ \/ Advance("call")
       \/ End("fetch", FALSE, Diagnostic("Error fetching URL", <<>>))
    /\ UNCHANGED <<script, source, content, output_text, parsed, out_file,
                   model_calls, prev>>
    /\ UNCHANGED <<cleanVars, stampVars, promptVars>>

\* update_from_linkedin.py lines 15-20 and 107-108: read_text_file
LinkedinReadTextFile ==
    /\ script = "update_from_linkedin"
    /\ pc = "source"
    /\ source = "text"
    /\ \/ Advance("call")
       \/ End("read", FALSE, Diagnostic("Error reading", <<>>))
    /\ UNCHANGED <<script, source, content, output_text, parsed, out_file,
                   model_calls, fetch_calls, prev>>
    /\ UNCHANGED <<cleanVars, stampVars, promptVars>>

\* update_from_linkedin.py lines 65-82 and 110: call_openai_to_schema; the
\* client may raise, and so does the second json.loads
LinkedinCallToSchema ==
    /\ script = "update_from_linkedin"
    /\ pc = "call"
    /\ model_calls' = model_calls + 1
    /\ \/ End("api_error", TRUE, Traceback) /\ UNCHANGED <<content, output_text, parsed>>
       \/ \E c \in ModelOutputs :
             LET text == Strip(c)
                 r == Coerce(text)
             IN /\ content' = c
                /\ output_text' = text
                /\ IF r.ok
                   THEN parsed' = r.val /\ Advance("write")
                   ELSE End(IF text = <<>> THEN "empty" ELSE "unparseable", TRUE, Traceback)
                        /\ UNCHANGED parsed
    /\ UNCHANGED <<script, source, out_file, fetch_calls, prev>>
    /\ UNCHANGED <<cleanVars, stampVars, promptVars>>

\* update_from_linkedin.py lines 112-114
LinkedinWrite ==
    /\ script = "update_from_linkedin"
    /\ pc = "write"
    /\ out_file' = parsed
    /\ pc' = "done"
    /\ steps' = Append(steps, pc)
    /\ UNCHANGED <<script, source, content, output_text, parsed, failure, uncaught,
                   exit_code, stderr, model_calls, fetch_calls, prev>>
    /\ UNCHANGED <<cleanVars, stampVars, promptVars>>

\* the process has ended; the next run starts from nothing
Restart ==
    /\ pc \in {"done", "failed"}
    /\ prev' = [script |-> script, failure |-> failure, uncaught |-> uncaught,
                exit_code |-> exit_code]
    /\ script' = "none"
    /\ source' = "none"
    /\ pc' = "idle"
    /\ steps' = <<>>
    /\ content' = <<>>
    /\ output_text' = <<>>
    /\ parsed' = NoValue
    /\ out_file' = NoValue
    /\ failure' = "none"
    /\ uncaught' = FALSE
    /\ exit_code' = 0
    /\ stderr' = NoDiagnostic
    /\ model_calls' = 0
    /\ fetch_calls' = 0
    /\ UNCHANGED <<cleanVars, stampVars, promptVars>>

NextPipe ==
    \/ Start
    \/ TailorReadText
    \/ TailorFetchJobSpec
    \/ TailorLoadApiKey
    \/ TailorCallOpenai
    \/ TailorCoerce
    \/ TailorWrite
    \/ LinkedinCheckKey
    \/ LinkedinReadPdfText
    \/ LinkedinFetchUrl
    \/ LinkedinReadTextFile
    \/ LinkedinCallToSchema
    \/ LinkedinWrite
    \/ Restart

SpecPipe == InitPipe /\ [][NextPipe]_vars

--------------------------------------------------------------------------
(* Properties of the cleanup *)

\* every paragraph of a tree, with the container that holds it
Located(d) ==
    UNION { { <<path, d[path][i]>> : i \in 1 .. Len(d[path]) } : path \in DOMAIN d }

CarriesBreak(p) ==
    \/ p.sectPr
    \/ \E i \in 1 .. Len(p.runs) : p.runs[i] \in {BrItem("page"), BrItem("column")}

Blank(p) == \A i \in 1 .. Len(TextOf(p.runs)) : TextOf(p.runs)[i] \in Whitespace

RECURSIVE IsSubSeq(_, _)
IsSubSeq(s, t) ==
    IF s = <<>> THEN TRUE
    ELSE IF t = <<>> THEN FALSE
    ELSE IF Head(s) = Head(t) THEN IsSubSeq(Tail(s), Tail(t))
    ELSE IsSubSeq(s, Tail(t))

NoDuplicates(s) == \A i, j \in 1 .. Len(s) : i # j => s[i] # s[j]

\* C1: after clean, every paragraph of the rendered tree that carries a
\* section break or holds a page or column break is still in its container,
\* whatever its text.
C1_BreaksSurvive ==
    passes >= 1 =>
        /\ ~crashed
        /\ \A lp \in Located(doc0) : CarriesBreak(lp[2]) => lp \in Located(doc)

\* C1 witness: a pass has removed something and kept break carriers with
\* empty, whitespace-only and non-empty text.
C1_Witness ==
    /\ passes = 1
    /\ doc # doc0
    /\ \E lp \in Located(doc) : CarriesBreak(lp[2]) /\ TextOf(lp[2].runs) = <<>>
    /\ \E lp \in Located(doc) :
          CarriesBreak(lp[2]) /\ Blank(lp[2]) /\ TextOf(lp[2].runs) # <<>>
    /\ \E lp \in Located(doc) : CarriesBreak(lp[2]) /\ ~Blank(lp[2])

\* C2: after clean, no paragraph is left, in the body or in a cell at any
\* depth, whose trimmed text is empty and which carries neither a section
\* break nor a page or column break; a line break protects nothing.
C2_NoDecorativeBlankLeft ==
    passes >= 1 =>
        \A lp \in Located(doc) : ~(Blank(lp[2]) /\ ~CarriesBreak(lp[2]))

\* C2 witness: blank paragraphs three tables deep, one of them holding only
\* a line break, were removed.
C2_Witness ==
    /\ passes = 1
    /\ \E lp \in Located(doc0) :
          /\ Len(lp[1]) = 3
          /\ Blank(lp[2]) /\ ~CarriesBreak(lp[2])
          /\ \E i \in 1 .. Len(lp[2].runs) : lp[2].runs[i] = BrItem(NoType)
          /\ lp \notin Located(doc)

\* C3: clean applied to its own result removes nothing and changes nothing.
C3_Idempotent ==
    passes = 2 => (doc = before /\ ~crashed /\ DOMAIN doc = DOMAIN doc0)

\* C3 witness: the second pass has run on a tree the first pass had changed.
C3_Witness ==
    /\ passes = 2
    /\ doc0 # before
    /\ Located(doc) # {}

\* C10: clean removes only blank paragraphs: a paragraph with non-empty
\* trimmed text stays, no table, row or cell goes, every survivor keeps its
\* content, its container and its order among the survivors, and the loop
\* tests each paragraph of the tree once, never one it has removed.
C10_Frame ==
    passes >= 1 =>
        /\ ~crashed
        /\ DOMAIN doc = DOMAIN before
        /\ \A path \in DOMAIN before : IsSubSeq(doc[path], before[path])
        /\ \A lp \in Located(before) : ~Blank(lp[2]) => lp \in Located(doc)
        /\ NoDuplicates(inspected)
        /\ { inspected[i] : i \in 1 .. Len(inspected) }
             = { lp[2].id : lp \in Located(before) }

\* C10 witness: a pass removed a blank paragraph from between two kept
\* ones inside a table cell.
C10_Witness ==
    /\ passes = 1
    /\ \E path \in DOMAIN doc0 :
          /\ path # Root
          /\ Len(doc0[path]) = 3
          /\ Len(doc[path]) = 2
          /\ doc[path] = <<doc0[path][1], doc0[path][3]>>
          /\ ~Blank(doc0[path][1])

--------------------------------------------------------------------------
(* Properties of the timestamped save *)

\* C7: two runs' file names compare as their generation instants do, for
\* runs one second apart and for any two runs in different seconds.
C7_SortableByGenerationTime ==
    Len(saved) = 2 =>
        (saved[1].t < saved[2].t => LexLess(saved[1].out_file, saved[2].out_file))

--------------------------------------------------------------------------
(* Properties of the prompt assembly *)

\* how many times needle occurs in text as a run of consecutive pieces
Occurrences(text, needle) ==
    Cardinality({ i \in 1 .. Len(text) - Len(needle) + 1 :
                    SubSeq(text, i, i + Len(needle) - 1) = needle })

\* C6: for a template holding both marker lines, and any job description
\* and CV, the assembled prompt holds no placeholder and holds the job
\* description and the CV verbatim, once each.
C6_BothInputsOnceNoPlaceholder ==
    (prompt # <<>> /\ Contains(template, MarkerA) /\ Contains(template, MarkerB)) =>
        /\ ~Contains(prompt, PlaceholderA)
        /\ ~Contains(prompt, PlaceholderB)
        /\ Occurrences(prompt, job_spec) = 1
        /\ Occurrences(prompt, cv_md) = 1

--------------------------------------------------------------------------
(* Properties of the pipelines *)

ObjectBodies == {ObjSummaryX, ObjEmpty}

\* C4: a valid JSON object inside a backtick fence, with or without a
\* language tag after the opening fence, is coerced to that object by the
\* fence-stripping retry, in tailor_cv and in update_from_linkedin.
C4_FencedObjectIsCoerced ==
    \A b \in ObjectBodies :
        (pc \in {"write", "done", "failed"} /\ content \in {Fenced(b), FencedWithTag(b)})
            => (pc # "failed" /\ parsed = JsonLoads(b).val)

\* C5: when both parses fail the run ends with the unparseable-output
\* error, not by an uncaught exception, and its diagnostic shows the text
\* as it was handed to the coercion, in both scripts.
C5_RawOutputInDiagnostic ==
    failure = "unparseable" => (~uncaught /\ stderr.text = output_text)

RequiredSteps ==
    IF script = "tailor_cv"
    THEN <<"read_prompt", "read_cv", "fetch", "key", "call", "coerce", "write">>
    ELSE <<"env", "source", "call", "write">>

\* C8: a run in which a step fails ends in error with nothing written; the
\* model and the network are each called at most once per run; the output
\* is written only after every earlier step has succeeded.
C8_ErrorsAreTerminal ==
    /\ model_calls <= 1
    /\ fetch_calls <= 1
    /\ failure # "none" => pc = "failed"
    /\ pc = "failed" => (failure # "none" /\ exit_code # 0 /\ out_file = NoValue)
    /\ out_file # NoValue =>
          /\ pc = "done"
          /\ steps = RequiredSteps
          /\ model_calls = 1
          /\ out_file = parsed

\* C8 witness: tailor_cv fetched once, called the model once, could not
\* parse the answer and ended with nothing written.
C8_Witness ==
    /\ script = "tailor_cv"
    /\ pc = "failed"
    /\ failure = "unparseable"
    /\ fetch_calls = 1
    /\ model_calls = 1
    /\ out_file = NoValue

\* the six failure classes the interface description lists
ListedClasses == {"read", "fetch", "credential", "empty", "unparseable", "pdf"}

==========================================================================
